---- MODULE Spec2Model ----
(***************************************************************************)
(* Vaultace SecureFlow: the workflow engine (SecureFlowEngine) and the     *)
(* encryption primitives of the encrypted state manager                    *)
(* (EncryptedStateManager).                                                *)
(*                                                                         *)
(* The engine is single-threaded JavaScript: code between two awaits runs  *)
(* atomically, so every action below is one run-to-completion segment of   *)
(* an async function.  A "task" is one pending call of executeWorkflow or  *)
(* replayExecution.                                                        *)
(***************************************************************************)
EXTENDS Integers, Sequences, FiniteSets, Bags, TLC

VARIABLES config, workflows, executions, tasks, orphans, events, now, ret,
          stateManager, call, files, init

vars == <<config, workflows, executions, tasks, orphans, events, now, ret,
         stateManager, call, files, init>>

(***************************************************************************)
(* Bounds of the model.                                                    *)
(***************************************************************************)
MaxSteps == 2          \* longest steps array of a registered definition
MaxTasks == 2          \* calls of executeWorkflow / replayExecution pending at a time
MaxExecs == 1          \* executions created
MaxReplays == 1        \* replayExecution calls on known executions
MaxStops == 1          \* stopExecution calls
MaxRegs == 2           \* successful registerWorkflow calls
MaxDays == 2           \* whole days the clock advances
MaxMs == 1             \* single milliseconds the clock advances within a day
MaxSnapshots == 1      \* snapshot files kept at a time

(***************************************************************************)
(* Program constants.                                                      *)
(***************************************************************************)
DefaultMaxRetries == 3

NoOption == -1     \* options.maxRetries not supplied
NoTime == -1       \* endTime not set
NoError == "none"  \* error not set
NoStep == [status |-> "absent"]        \* hole in execution.steps
NoExec == 0
NoIndex == -1

Min(a, b) == IF a < b THEN a ELSE b

(***************************************************************************)
(* constructor: { maxRetries: options.maxRetries || 3, ...options }.  The  *)
(* spread comes last, so a supplied maxRetries (0 included) wins.          *)
(***************************************************************************)
Constructor(o) ==
  LET defaulted == IF o = NoOption \/ o = 0 THEN DefaultMaxRetries ELSE o
      spread == IF o # NoOption THEN o ELSE defaulted
  IN [maxRetries |-> spread]

(***************************************************************************)
(* Step specifications a caller can put in a definition.                   *)
(***************************************************************************)
BuiltinTypes == {"scan"}
StepSpecs ==
  {[type |-> "scan", retryable |-> TRUE, handler |-> FALSE],
   [type |-> "scan", retryable |-> FALSE, handler |-> FALSE],
   [type |-> "custom", retryable |-> TRUE, handler |-> TRUE],
   [type |-> "custom", retryable |-> TRUE, handler |-> FALSE],
   [type |-> "bogus", retryable |-> TRUE, handler |-> FALSE]}

\* values of options.maxRetries handed to the constructor
RetryOptions == {NoOption, 0, 1, 2}

StepSeqs == UNION {[1..n -> StepSpecs] : n \in 0..MaxSteps}

(***************************************************************************)
(* Workflow ids are strings; a generated id is wf_<name>_<Date.now()>, so  *)
(* an id is modelled by the pair it is built from.  A caller may supply    *)
(* any string, also one of the generated form.                             *)
(***************************************************************************)
SuppliedIds == {[n |-> "wf_a", t |-> NoTime], [n |-> "cve_patch", t |-> 0]}
NoId == [n |-> "undefined", t |-> NoTime]
NonexistentId == [n |-> "nonexistent", t |-> NoTime]

generateWorkflowId(name, t) == [n |-> name, t |-> t]

(***************************************************************************)
(* Definitions handed to registerWorkflow.  "undefined" marks a missing    *)
(* property; hasSteps = FALSE is a definition without a steps property.    *)
(***************************************************************************)
DefInputs ==
  {[id |-> i, name |-> "cve_patch", trigger |-> "manual", hasSteps |-> TRUE, steps |-> s] :
       i \in SuppliedIds \cup {NoId}, s \in StepSeqs}
  \cup {[id |-> i, name |-> "undefined", trigger |-> "manual", hasSteps |-> TRUE,
         steps |-> <<>>] : i \in {[n |-> "wf_a", t |-> NoTime], NoId}}
  \cup {[id |-> NoId, name |-> "cve_patch", trigger |-> "undefined", hasSteps |-> TRUE,
         steps |-> <<>>],
        [id |-> NoId, name |-> "cve_patch", trigger |-> "manual", hasSteps |-> FALSE,
         steps |-> <<>>]}

(***************************************************************************)
(* Engine encrypt/decrypt of a definition: JSON.stringify drops function   *)
(* valued properties, so the handler of a custom step does not survive.    *)
(***************************************************************************)
JsonStep(s) == [type |-> s.type, retryable |-> s.retryable]
EngineEncrypt(steps) == [json |-> [i \in DOMAIN steps |-> JsonStep(steps[i])]]
EngineDecrypt(blob) == blob.json

(***************************************************************************)
(* executeStepFunction: what the promise of a step attempt can do.         *)
(* resolve / reject, or stay pending until the timer fires ("hang").       *)
(* The bodies of the built-in step types are opaque units of work.         *)
(***************************************************************************)
HasHandler(stepDef) == "handler" \in DOMAIN stepDef /\ stepDef.handler

StepOutcomes(stepDef) ==
  IF stepDef.type \in BuiltinTypes THEN {"resolve", "reject", "hang"}
  ELSE IF stepDef.type = "custom" /\ HasHandler(stepDef)
       THEN {"resolve", "reject", "hang"}
       ELSE {"reject"}

StepError(stepDef) ==
  IF stepDef.type \in BuiltinTypes THEN "handler error"
  ELSE IF stepDef.type = "custom"
       THEN IF HasHandler(stepDef) THEN "handler error"
            ELSE "Custom step requires handler function"
       ELSE "Unknown step type"

TimeoutError == "Step timeout"

(***************************************************************************)
(* Records.                                                                *)
(***************************************************************************)
Event(type, e, w, idx, err) ==
  [type |-> type, executionId |-> e, workflowId |-> w, stepIndex |-> idx, error |-> err]

\* emit: the engine's listeners receive the event; the log counts each event
Emit(log, ev) == log (+) SetToBag({ev})

NoTask == [kind |-> "none", exec |-> NoExec, steps |-> <<>>, from |-> 0, i |-> 0,
           pc |-> "none", attached |-> FALSE, error |-> NoError]

StepIndexes == 0..(MaxSteps - 1)

NewExecution(wid) ==
  [workflowId |-> wid, status |-> "running", currentStep |-> 0, startTime |-> now,
   endTime |-> NoTime, steps |-> [j \in StepIndexes |-> NoStep], retryCount |-> 0,
   error |-> NoError]

\* executeStep, lines 160-168: a fresh StepExecution object
NewStepExecution(stepDef, stepIndex, t) ==
  [status |-> "running", index |-> stepIndex, type |-> stepDef.type, startTime |-> t,
   endTime |-> NoTime, error |-> NoError, result |-> FALSE]

\* steps.length of the JavaScript array
StepsLength(ex) ==
  IF \A j \in StepIndexes : ex.steps[j] = NoStep THEN 0
  ELSE 1 + CHOOSE j \in StepIndexes :
             ex.steps[j] # NoStep /\ \A k \in StepIndexes : k > j => ex.steps[k] = NoStep

TaskIds == 1..MaxTasks
\* a call that returned or threw no longer occupies the engine
FreeTasks == {t \in TaskIds : tasks[t].pc \in {"none", "returned", "threw"}}
NextTask == CHOOSE t \in FreeTasks : \A u \in FreeTasks : t <= u
ExecIds == DOMAIN executions
NextExec == Cardinality(ExecIds) + 1

EventCount(type) ==
  BagCardinality([ev \in {x \in DOMAIN events : x.type = type} |-> events[ev]])

(***************************************************************************)
(* EncryptedStateManager, src/workflows/engine/state.js.                   *)
(*                                                                         *)
(* A payload is a JSON value: an object {"data": "<pad characters>"} that  *)
(* may also have an own field _compressed (flag), an array ["<pad          *)
(* characters>"], a string of pad characters, a one-digit number, or null. *)
(* On an array, flag is the non-index property _compressed, which          *)
(* JSON.stringify does not write.                                          *)
(***************************************************************************)
CompressionThreshold == 1024
AAD == "vaultace-secureflow"
Algorithm == "aes-256-gcm"
EncryptError == "Failed to encrypt state data"
DecryptError == "Failed to decrypt state data"

Keys == {"key1", "key2"}
IVs == {"iv1", "iv2"}
Pads == {0, 1013, 1014}

\* the _metadata field that the save operations add to what they store
NoMeta == [of |-> "none", id |-> "none", size |-> 0, at |-> NoTime]

Payloads ==
  {[kind |-> "object", pad |-> p, flag |-> f, meta |-> NoMeta] :
     p \in Pads, f \in {"absent", "true", "false"}}
  \cup {[kind |-> k, pad |-> p, flag |-> "absent", meta |-> NoMeta] :
     k \in {"array", "string"}, p \in Pads \cup {1022, 1023}}
  \cup {[kind |-> "number", pad |-> 1, flag |-> "absent", meta |-> NoMeta],
        [kind |-> "null", pad |-> 0, flag |-> "absent", meta |-> NoMeta]}

NoValue == [kind |-> "none", pad |-> 0, flag |-> "absent", meta |-> NoMeta]
IsPrimitive(x) == x.kind \in {"string", "number", "null"}

\* serialized.length of JSON.stringify(x):  {"data":"..."} is 11 characters
\* around the pad, ,"_compressed":true 19 more and ,"_compressed":false 20.
RECURSIVE Digits(_)
Digits(n) == IF n < 10 THEN 1 ELSE 1 + Digits(n \div 10)

\* the decimal digits of a number, as characters
RECURSIVE DecimalText(_)
DecimalText(n) ==
  LET digit == <<"0", "1", "2", "3", "4", "5", "6", "7", "8", "9">>[(n % 10) + 1]
  IN  IF n < 10 THEN <<digit>> ELSE DecimalText(n \div 10) \o <<digit>>


\* the strings used as ids, as sequences of characters
IdText ==
  ("e1" :> <<"e", "1">>) @@ ("e1_x" :> <<"e", "1", "_", "x">>)
    @@ ("e10" :> <<"e", "1", "0">>) @@ ("w1" :> <<"w", "1">>)

\* createSnapshot, line 236: `${executionId}_step_${stepIndex}_${Date.now()}`
SnapshotId(executionId, stepIndex, t) ==
  IdText[executionId] \o <<"_", "s", "t", "e", "p", "_">> \o DecimalText(stepIndex)
    \o <<"_">> \o DecimalText(t)

\* ,"_metadata":{"executionId":"<id>","savedAt":"<24 characters>",
\* "version":"1.0","size":<digits>}; the metadata of a definition has
\* "workflowId" and no size; that of a snapshot is
\* ,"_metadata":{"snapshotId":"<id>","executionId":"<id>","stepIndex":<digits>,
\* "createdAt":"<24 characters>"}
MetadataLength(meta) ==
  CASE meta.of = "execution" -> 92 + Len(IdText[meta.id]) + Digits(meta.size)
    [] meta.of = "workflow" -> 83 + Len(IdText[meta.id])
    [] meta.of = "snapshot" ->
         99 + Len(SnapshotId(meta.id, meta.size, meta.at)) + Len(IdText[meta.id])
            + Digits(meta.size)
    [] OTHER -> 0

SerializedLength(x) ==
  CASE x.kind = "object" ->
         11 + x.pad + MetadataLength(x.meta)
            + (CASE x.flag = "true" -> 19
                 [] x.flag = "false" -> 20
                 [] OTHER -> 0)
    [] x.kind = "array" -> 4 + x.pad
    [] x.kind = "string" -> 2 + x.pad
    [] x.kind = "number" -> x.pad
    [] OTHER -> 4

\* JSON.stringify writes an object's own fields and an array's elements.
JsonStringify(x) ==
  [form |-> "json", kind |-> x.kind, pad |-> x.pad,
   field |-> IF x.kind = "object" THEN x.flag ELSE "absent",
   meta |-> IF x.kind = "object" THEN x.meta ELSE NoMeta,
   length |-> SerializedLength(x)]

JsonParse(s) == [kind |-> s.kind, pad |-> s.pad, flag |-> s.field, meta |-> s.meta]

\* zlib.gzipSync(serialized).toString('base64') and its inverse, which
\* throws on anything that is not a gzip stream.
Gzip(s) == [s EXCEPT !.form = "gzip+base64"]
GunzipThrows(s) == s.form # "gzip+base64"
Gunzip(s) == [s EXCEPT !.form = "json"]

\* AES-256-GCM: the ciphertext of a text under a key and an iv, and the
\* 16-byte tag over key, iv, additional data and ciphertext.  delta is a
\* change made to the bytes afterwards, size what is left of the tag.
GcmEncrypt(key, iv, text) ==
  [key |-> key, iv |-> iv, text |-> text, delta |-> "none"]
GcmTag(key, iv, aad, ct) ==
  [key |-> key, iv |-> iv, aad |-> aad, ct |-> ct, size |-> "full",
   delta |-> "none"]

\* decipher.final() compares the tag it was given, over its own length,
\* with the tag it computes; setAuthTag takes a tag of any valid GCM length
\* when createDecipheriv got no authTagLength.
GcmVerify(key, iv, aad, ct, tag) ==
  /\ tag.delta = "none"
  /\ [tag EXCEPT !.size = "full"] = GcmTag(key, iv, aad, ct)

\* buffer.toString('hex') writes lower-case digits; Buffer.from(h, 'hex')
\* reads digits of either case.
ToHex(bytes) == [bytes |-> bytes, digits |-> "lower"]
FromHex(h) == h.bytes

NoBlob == [algorithm |-> "none"]

NewStateManager(key, compression) ==
  [algorithm |-> Algorithm, compressionEnabled |-> compression,
   encryptionKey |-> key]

Encrypt(sm, data, iv, t) ==
  LET serialized == JsonStringify(data)
      compress == sm.compressionEnabled /\ serialized.length > CompressionThreshold
      after == IF compress THEN [data EXCEPT !.flag = "true"] ELSE data
      text == IF compress THEN Gzip(serialized) ELSE serialized
      encrypted == GcmEncrypt(sm.encryptionKey, iv, text)
      authTag == GcmTag(sm.encryptionKey, iv, AAD, encrypted)
  IN  IF (compress /\ IsPrimitive(data)) \/ data.kind = "null"
      THEN [error |-> EncryptError, data |-> data, blob |-> NoBlob]
      ELSE [error |-> NoError, data |-> after,
            blob |-> [iv |-> ToHex(iv), encrypted |-> ToHex(encrypted),
                      authTag |-> ToHex(authTag), algorithm |-> sm.algorithm,
                      compressed |-> (after.flag = "true"), timestamp |-> t]]

Decrypt(sm, encryptedData) ==
  LET iv == FromHex(encryptedData.iv)
      tag == FromHex(encryptedData.authTag)
      ct == FromHex(encryptedData.encrypted)
      decrypted == ct.text
      serialized == IF encryptedData.compressed THEN Gunzip(decrypted)
                    ELSE decrypted
  IN  IF \/ ~GcmVerify(sm.encryptionKey, iv, AAD, ct, tag)
         \/ encryptedData.compressed /\ GunzipThrows(decrypted)
         \/ serialized.form # "json"
      THEN [error |-> DecryptError, value |-> NoValue]
      ELSE [error |-> NoError, value |-> JsonParse(serialized)]

DefaultKey == "key1"
NoCall ==
  [op |-> "none", arg |-> NoValue, data |-> NoValue, sealed |-> NoBlob,
   blob |-> NoBlob, result |-> [error |-> NoError, value |-> NoValue]]

(***************************************************************************)
(* The file system: a path is a directory and a file name, a name is the   *)
(* sequence of its characters (an extension is written as one element).    *)
(* files maps each path that exists to its content and modification time;  *)
(* a directory is a path whose content is Directory.                       *)
(***************************************************************************)
KeyFile == [dir |-> "home", name |-> <<"secureflow.key">>]
RawKey(keyData) == [form |-> "raw", key |-> keyData, blob |-> NoBlob, mtime |-> NoTime]
Directory == [form |-> "dir", blob |-> NoBlob, mtime |-> NoTime]

\* constructor, line 14, and init, lines 25-28: stateDir and its namespaces
StateDir == [dir |-> "home", name |-> <<"state">>]
Namespace(d) == [dir |-> "state", name |-> <<d>>]
InitDirs == <<StateDir, Namespace("executions"), Namespace("workflows"), Namespace("snapshots")>>
InitDone == Len(InitDirs)

\* fs.ensureDir: the directory and the missing directories above it are made
EnsureDir(fs, d) ==
  LET above == IF d = StateDir THEN {} ELSE {StateDir}
      missing == (above \cup {d}) \ DOMAIN fs
  IN  [q \in missing |-> Directory] @@ fs

StateDirs == [q \in {InitDirs[k] : k \in 1..InitDone} |-> Directory]

\* fs.writeFile: ENOENT when the directory of the file does not exist
NoSuchDirectory == "ENOENT"
CanWrite(fs, path) == Namespace(path.dir) \in DOMAIN fs
WriteFile(fs, path, content, t) == (path :> [content EXCEPT !.mtime = t]) @@ fs


StateManagerIdle ==
  /\ stateManager = NewStateManager(DefaultKey, TRUE)
  /\ call = NoCall
  /\ files = (KeyFile :> RawKey("raw1")) @@ StateDirs
  /\ init = InitDone

Init ==
  /\ \E o \in RetryOptions : config = Constructor(o)
  /\ workflows = <<>>
  /\ executions = <<>>
  /\ tasks = [t \in TaskIds |-> NoTask]
  /\ orphans = {}
  /\ events = EmptyBag
  /\ now = 0
  /\ ret = [op |-> "constructor", error |-> NoError]
  /\ StateManagerIdle

(***************************************************************************)
(* registerWorkflow, lines 57-83.                                          *)
(***************************************************************************)
RegisterWorkflow(def) ==
  /\ IF def.id = NoId /\ def.name = "undefined"
     THEN \* generateWorkflowId(undefined): name.replace throws a TypeError
          /\ ret' = [op |-> "registerWorkflow", error |-> "TypeError"]
          /\ UNCHANGED <<workflows, events>>
     ELSE IF def.name = "undefined" \/ def.trigger = "undefined" \/ ~def.hasSteps
     THEN /\ ret' = [op |-> "registerWorkflow", error |-> "Invalid workflow definition"]
          /\ UNCHANGED <<workflows, events>>
     ELSE LET workflowId == IF def.id # NoId THEN def.id
                            ELSE generateWorkflowId(def.name, now)
          IN /\ EventCount("workflow:registered") < MaxRegs
             /\ workflows' = (workflowId :> [steps |-> def.steps,
                                              definition |-> EngineEncrypt(def.steps),
                                              registeredAt |-> now]) @@ workflows
             /\ events' = Emit(events,
                     Event("workflow:registered", NoExec, workflowId, NoIndex, NoError))
             /\ ret' = [op |-> "registerWorkflow", error |-> NoError]
  /\ UNCHANGED <<init, files, stateManager, call, config, executions, tasks, orphans, now>>

(***************************************************************************)
(* executeStep, lines 158-177: the synchronous head of a step attempt.     *)
(* The new StepExecution object replaces whatever steps[stepIndex] held;   *)
(* a task that still holds the replaced object writes to it unseen.        *)
(***************************************************************************)
\* a retry appends a record instead of replacing the one at its index
DispatchStep_Append(ex, stepDef, stepIndex, t) ==
  LET len == IF \A j \in 0..(MaxSteps - 1) : ex.steps[j].status = "absent" THEN 0
             ELSE 1 + CHOOSE j \in 0..(MaxSteps - 1) :
                        /\ ex.steps[j].status # "absent"
                        /\ \A k \in 0..(MaxSteps - 1) : k > j => ex.steps[k].status = "absent"
  IN IF ex.steps[stepIndex].status # "absent" /\ len < MaxSteps
     THEN [ex EXCEPT !.steps[len] = [status |-> "running", index |-> stepIndex,
                                      type |-> stepDef.type, startTime |-> t,
                                      endTime |-> -1, error |-> "none", result |-> FALSE]]
     ELSE [ex EXCEPT !.steps[stepIndex] = [status |-> "running", index |-> stepIndex,
                                      type |-> stepDef.type, startTime |-> t,
                                      endTime |-> -1, error |-> "none", result |-> FALSE]]

DispatchStep(ex, stepDef, stepIndex, t) ==
  [ex EXCEPT !.steps[stepIndex] = NewStepExecution(stepDef, stepIndex, t)]

Detach(tk, e, stepIndex) ==
  [u \in TaskIds |->
     IF tk[u].exec = e /\ tk[u].i = stepIndex /\ tk[u].pc \in {"await", "backoff"}
     THEN [tk[u] EXCEPT !.attached = FALSE] ELSE tk[u]]

StepStarted(e, stepIndex) == Event("step:started", e, NoId, stepIndex, NoError)

(***************************************************************************)
(* executeWorkflow, lines 85-118, up to the first await: the record is     *)
(* created and step 0 is dispatched (runWorkflowSteps, lines 147-154).     *)
(***************************************************************************)
\* the record is created before the lookup and left behind, marked failed
ExecuteUnknown_RecordFirst(workflowId) ==
  /\ NextExec <= MaxExecs
  /\ ret' = [op |-> "executeWorkflow", error |-> "Workflow not found"]
  /\ executions' = (NextExec :> [NewExecution(workflowId) EXCEPT !.status = "failed"])
                      @@ executions
  /\ UNCHANGED <<init, files, stateManager, call, config, workflows, tasks, orphans, events, now>>

\* lines 86-89: the id is not registered
ExecuteUnknown(workflowId) ==
  /\ ret' = [op |-> "executeWorkflow", error |-> "Workflow not found"]
  /\ UNCHANGED <<init, files, stateManager, call, config, workflows, executions, tasks, orphans, events, now>>

ExecuteWorkflow(workflowId) ==
  IF workflowId \notin DOMAIN workflows
  THEN ExecuteUnknown(workflowId)
  ELSE /\ FreeTasks # {}
       /\ NextExec <= MaxExecs
       /\ LET workflowDef == EngineDecrypt(workflows[workflowId].definition)
              e == NextExec
              t == NextTask
              ex == NewExecution(workflowId)
              started == Emit(events, Event("execution:started", e, workflowId, NoIndex, NoError))
          IN IF Len(workflowDef) > 0
             THEN /\ executions' = (e :> DispatchStep(ex, workflowDef[1], 0, now)) @@ executions
                  /\ tasks' = [tasks EXCEPT ![t] =
                        [kind |-> "execute", exec |-> e, steps |-> workflowDef, from |-> 0,
                         i |-> 0, pc |-> "await", attached |-> TRUE, error |-> NoError]]
                  /\ events' = Emit(started, StepStarted(e, 0))
             ELSE /\ executions' = (e :> ex) @@ executions
                  /\ tasks' = [tasks EXCEPT ![t] =
                        [kind |-> "execute", exec |-> e, steps |-> workflowDef, from |-> 0,
                         i |-> -1, pc |-> "settled", attached |-> FALSE, error |-> NoError]]
                  /\ events' = started
       /\ ret' = [op |-> "executeWorkflow", error |-> NoError]
       /\ UNCHANGED <<init, files, stateManager, call, config, workflows, orphans, now>>

(***************************************************************************)
(* executeStep, lines 179-187: the attempt's promise resolved.             *)
(***************************************************************************)
CompleteStep(se, t) == [se EXCEPT !.status = "completed", !.endTime = t, !.result = TRUE]
FailStep(se, t, err) == [se EXCEPT !.status = "failed", !.endTime = t, !.error = err]

\* a per-step budget: the counter starts again when a step completes
HandlerResolve_ResetBudget(t) ==
  /\ tasks[t].pc = "await"
  /\ "resolve" \in StepOutcomes(tasks[t].steps[tasks[t].i + 1])
  /\ now' = now + 1
  /\ LET tk == tasks[t]
         e == tk.exec
     IN /\ executions' = [executions EXCEPT ![e] =
               [(IF tk.attached THEN [@ EXCEPT !.steps[tk.i] = CompleteStep(@, now')] ELSE @)
                  EXCEPT !.retryCount = 0]]
        /\ tasks' = [tasks EXCEPT ![t].pc = "settled"]
        /\ events' = Emit(events, Event("step:completed", e, NoId, tk.i, NoError))
  /\ UNCHANGED <<init, files, stateManager, call, config, workflows, orphans, ret>>

HandlerResolve(t) ==
  /\ tasks[t].pc = "await"
  /\ "resolve" \in StepOutcomes(tasks[t].steps[tasks[t].i + 1])
  /\ now' = now + 1
  /\ LET tk == tasks[t]
         e == tk.exec
     IN /\ executions' = [executions EXCEPT ![e] =
               IF tk.attached THEN [@ EXCEPT !.steps[tk.i] = CompleteStep(@, now')] ELSE @]
        /\ tasks' = [tasks EXCEPT ![t].pc = "settled"]
        /\ events' = Emit(events, Event("step:completed", e, NoId, tk.i, NoError))
  /\ UNCHANGED <<init, files, stateManager, call, config, workflows, orphans, ret>>

(***************************************************************************)
(* executeStep, lines 189-210: the catch block with the retry rule.        *)
(***************************************************************************)
ShouldRetry_OffByOne(ex, stepDef) ==
  ex.retryCount <= config.maxRetries /\ stepDef.retryable # FALSE

ShouldRetry(ex, stepDef) == ex.retryCount < config.maxRetries /\ stepDef.retryable # FALSE

\* the error of a step that is not retried is swallowed and the loop goes on
CatchStep_Swallow(t, err) ==
  LET tk == tasks[t]
      e == tk.exec
      stepDef == tk.steps[tk.i + 1]
      failed == IF tk.attached
                THEN [executions[e] EXCEPT !.steps[tk.i] = FailStep(@, now', err)]
                ELSE executions[e]
  IN IF ShouldRetry(executions[e], stepDef)
     THEN /\ executions' = [executions EXCEPT ![e] =
                 [failed EXCEPT !.retryCount = @ + 1]]
          /\ tasks' = [tasks EXCEPT ![t].pc = "backoff"]
          /\ events' = events
     ELSE /\ executions' = [executions EXCEPT ![e] = failed]
          /\ tasks' = [tasks EXCEPT ![t].pc = "settled"]
          /\ events' = Emit(events, Event("step:failed", e, NoId, tk.i, err))

CatchStep(t, err) ==
  LET tk == tasks[t]
      e == tk.exec
      stepDef == tk.steps[tk.i + 1]
      failed == IF tk.attached
                THEN [executions[e] EXCEPT !.steps[tk.i] = FailStep(@, now', err)]
                ELSE executions[e]
  IN IF ShouldRetry(executions[e], stepDef)
     THEN /\ executions' = [executions EXCEPT ![e] =
                 [failed EXCEPT !.retryCount = @ + 1]]
          /\ tasks' = [tasks EXCEPT ![t].pc = "backoff"]
          /\ events' = events
     ELSE /\ executions' = [executions EXCEPT ![e] = failed]
          /\ tasks' = [tasks EXCEPT ![t].pc = "throwing", ![t].error = err]
          /\ events' = Emit(events, Event("step:failed", e, NoId, tk.i, err))

HandlerReject(t) ==
  /\ tasks[t].pc = "await"
  /\ "reject" \in StepOutcomes(tasks[t].steps[tasks[t].i + 1])
  /\ now' = now + 1
  /\ CatchStep(t, StepError(tasks[t].steps[tasks[t].i + 1]))
  /\ UNCHANGED <<init, files, stateManager, call, config, workflows, orphans, ret>>

(***************************************************************************)
(* executeStepWithTimeout, lines 213-229: the timer fires while the        *)
(* handler is still pending.  The handler is not cancelled.                *)
(***************************************************************************)
\* the timer is armed for the first attempt of an execution only
TimerFire_FirstAttemptOnly(t) ==
  /\ tasks[t].pc = "await"
  /\ executions[tasks[t].exec].retryCount = 0
  /\ "hang" \in StepOutcomes(tasks[t].steps[tasks[t].i + 1])
  /\ now' = now + 1
  /\ CatchStep(t, TimeoutError)
  /\ orphans' = orphans \cup {[exec |-> tasks[t].exec, index |-> tasks[t].i]}
  /\ UNCHANGED <<init, files, stateManager, call, config, workflows, ret>>

TimerFire(t) ==
  /\ tasks[t].pc = "await"
  /\ "hang" \in StepOutcomes(tasks[t].steps[tasks[t].i + 1])
  /\ now' = now + 1
  /\ CatchStep(t, TimeoutError)
  /\ orphans' = orphans \cup {[exec |-> tasks[t].exec, index |-> tasks[t].i]}
  /\ UNCHANGED <<init, files, stateManager, call, config, workflows, ret>>

(***************************************************************************)
(* The orphaned handler settles after its timer fired: the then/catch      *)
(* callbacks of lines 220-227 call resolve/reject on a settled promise.    *)
(***************************************************************************)
\* the late handler's result is written to the record of its attempt
OrphanEffect_LateWrite(ex, o) == [ex EXCEPT !.steps[o.index].status = "completed"]

OrphanEffect(ex, o) == ex

OrphanSettle(o) ==
  /\ o \in orphans
  /\ orphans' = orphans \ {o}
  /\ executions' = [executions EXCEPT ![o.exec] = OrphanEffect(@, o)]
  /\ UNCHANGED <<init, files, stateManager, call, config, workflows, tasks, events, now, ret>>

(***************************************************************************)
(* executeStep, lines 204-205: the backoff delay elapsed, the same step is *)
(* attempted again at the same index.                                      *)
(***************************************************************************)
BackoffDone(t) ==
  /\ tasks[t].pc = "backoff"
  /\ now' = now + 1
  /\ LET tk == tasks[t]
         e == tk.exec
     IN /\ executions' = [executions EXCEPT ![e] =
               DispatchStep(@, tk.steps[tk.i + 1], tk.i, now')]
        /\ tasks' = [Detach(tasks, e, tk.i) EXCEPT ![t].pc = "await", ![t].attached = TRUE]
        /\ events' = Emit(events, StepStarted(e, tk.i))
  /\ UNCHANGED <<init, files, stateManager, call, config, workflows, orphans, ret>>

(***************************************************************************)
(* The step completed and control is back in the loop: runWorkflowSteps    *)
(* lines 150-154 for executeWorkflow (then lines 119-127 when the loop is  *)
(* over), replayExecution lines 379-384 for a replay.                      *)
(***************************************************************************)
LoopNext(t) ==
  /\ tasks[t].pc = "settled"
  /\ LET tk == tasks[t]
         e == tk.exec
         n == tk.i + 1
         wid == executions[e].workflowId
     IN IF n < Len(tk.steps)
        THEN /\ executions' = [executions EXCEPT ![e] =
                    DispatchStep(IF tk.kind = "execute" THEN [@ EXCEPT !.currentStep = n] ELSE @,
                                 tk.steps[n + 1], n, now)]
             /\ tasks' = [Detach(tasks, e, n) EXCEPT
                            ![t].i = n, ![t].pc = "await", ![t].attached = TRUE]
             /\ events' = Emit(events, StepStarted(e, n))
        ELSE /\ executions' = [executions EXCEPT ![e].status = "completed", ![e].endTime = now]
             /\ tasks' = [tasks EXCEPT ![t].pc = "returned"]
             /\ events' = IF tk.kind = "execute"
                           THEN Emit(events, Event("execution:completed", e, wid, NoIndex, NoError))
                           ELSE events
  /\ UNCHANGED <<init, files, stateManager, call, config, workflows, orphans, now, ret>>

(***************************************************************************)
(* The step's error reaches the catch block of executeWorkflow (lines      *)
(* 129-141) or of replayExecution (lines 386-389) and is rethrown.         *)
(***************************************************************************)
\* the catch block forgets to record the error message
Propagate_NoError(t) ==
  /\ tasks[t].pc = "throwing"
  /\ LET tk == tasks[t]
         e == tk.exec
         wid == executions[e].workflowId
     IN /\ executions' = [executions EXCEPT ![e] =
               [@ EXCEPT !.status = "failed", !.endTime = now]]
        /\ events' = IF tk.kind = "execute"
                      THEN Emit(events, Event("execution:failed", e, wid, NoIndex, tk.error))
                      ELSE events
        /\ tasks' = [tasks EXCEPT ![t].pc = "threw"]
  /\ UNCHANGED <<init, files, stateManager, call, config, workflows, orphans, now, ret>>

Propagate(t) ==
  /\ tasks[t].pc = "throwing"
  /\ LET tk == tasks[t]
         e == tk.exec
         wid == executions[e].workflowId
     IN /\ executions' = [executions EXCEPT ![e] =
               IF tk.kind = "execute"
               THEN [@ EXCEPT !.status = "failed", !.endTime = now, !.error = tk.error]
               ELSE [@ EXCEPT !.status = "failed", !.error = tk.error]]
        /\ events' = IF tk.kind = "execute"
                      THEN Emit(events, Event("execution:failed", e, wid, NoIndex, tk.error))
                      ELSE events
        /\ tasks' = [tasks EXCEPT ![t].pc = "threw"]
  /\ UNCHANGED <<init, files, stateManager, call, config, workflows, orphans, now, ret>>

(***************************************************************************)
(* stopExecution, lines 344-355.                                           *)
(***************************************************************************)
\* the execution is marked stopped but its endTime is left unset
StopExecution_NoEndTime(e) ==
  IF e \notin ExecIds
  THEN /\ ret' = [op |-> "stopExecution", error |-> "Execution not found"]
       /\ UNCHANGED <<init, files, stateManager, call, config, workflows, executions, tasks, orphans, events, now>>
  ELSE /\ EventCount("execution:stopped") < MaxStops
       /\ executions' = [executions EXCEPT ![e].status = "stopped"]
       /\ events' = Emit(events, Event("execution:stopped", e, NoId, NoIndex, NoError))
       /\ ret' = [op |-> "stopExecution", error |-> NoError]
       /\ UNCHANGED <<init, files, stateManager, call, config, workflows, tasks, orphans, now>>

StopExecution(e) ==
  IF e \notin ExecIds
  THEN /\ ret' = [op |-> "stopExecution", error |-> "Execution not found"]
       /\ UNCHANGED <<init, files, stateManager, call, config, workflows, executions, tasks, orphans, events, now>>
  ELSE /\ EventCount("execution:stopped") < MaxStops
       /\ executions' = [executions EXCEPT ![e].status = "stopped", ![e].endTime = now]
       /\ events' = Emit(events, Event("execution:stopped", e, NoId, NoIndex, NoError))
       /\ ret' = [op |-> "stopExecution", error |-> NoError]
       /\ UNCHANGED <<init, files, stateManager, call, config, workflows, tasks, orphans, now>>

(***************************************************************************)
(* replayExecution, lines 357-381, up to the first await.                  *)
(***************************************************************************)
\* the replay starts from an emptied steps array
ReplayReset_ClearSteps(ex, fromStep) ==
  [ex EXCEPT !.status = "running", !.currentStep = fromStep, !.retryCount = 0,
             !.steps = [j \in DOMAIN ex.steps |-> [status |-> "absent"]]]

\* the retry counter of the earlier run is carried into the replay
ReplayReset_KeepBudget(ex, fromStep) ==
  [ex EXCEPT !.status = "running", !.currentStep = fromStep]

\* lines 366-368
ReplayReset(ex, fromStep) ==
  [ex EXCEPT !.status = "running", !.currentStep = fromStep, !.retryCount = 0]

ReplayExecution(e, fromStep) ==
  IF e \notin ExecIds
  THEN /\ ret' = [op |-> "replayExecution", error |-> "Execution not found"]
       /\ UNCHANGED <<init, files, stateManager, call, config, workflows, executions, tasks, orphans, events, now>>
  ELSE /\ FreeTasks # {}
       /\ EventCount("execution:replaying") < MaxReplays
       /\ LET workflowDef == EngineDecrypt(workflows[executions[e].workflowId].definition)
              t == NextTask
              ex == ReplayReset(executions[e], fromStep)
              replaying == Emit(events, Event("execution:replaying", e, NoId, fromStep, NoError))
          IN IF fromStep < Len(workflowDef)
             THEN /\ executions' = [executions EXCEPT ![e] =
                         DispatchStep(ex, workflowDef[fromStep + 1], fromStep, now)]
                  /\ tasks' = [Detach(tasks, e, fromStep) EXCEPT ![t] =
                        [kind |-> "replay", exec |-> e, steps |-> workflowDef, from |-> fromStep,
                         i |-> fromStep, pc |-> "await", attached |-> TRUE, error |-> NoError]]
                  /\ events' = Emit(replaying, StepStarted(e, fromStep))
             ELSE /\ executions' = [executions EXCEPT ![e] = ex]
                  /\ tasks' = [tasks EXCEPT ![t] =
                        [kind |-> "replay", exec |-> e, steps |-> workflowDef, from |-> fromStep,
                         i |-> Len(workflowDef) - 1, pc |-> "settled", attached |-> FALSE,
                         error |-> NoError]]
                  /\ events' = replaying
       /\ ret' = [op |-> "replayExecution", error |-> NoError]
       /\ UNCHANGED <<init, files, stateManager, call, config, workflows, orphans, now>>

UnknownExec == NextExec

Next ==
  \/ \E def \in DefInputs : RegisterWorkflow(def)
  \/ \E w \in DOMAIN workflows \cup {NonexistentId} : ExecuteWorkflow(w)
  \/ \E t \in TaskIds : HandlerResolve(t)
  \/ \E t \in TaskIds : HandlerReject(t)
  \/ \E t \in TaskIds : TimerFire(t)
  \/ \E t \in TaskIds : BackoffDone(t)
  \/ \E t \in TaskIds : LoopNext(t)
  \/ \E t \in TaskIds : Propagate(t)
  \/ \E o \in orphans : OrphanSettle(o)
  \/ \E e \in ExecIds \cup {UnknownExec} : StopExecution(e)
  \/ \E e \in ExecIds \cup {UnknownExec}, fromStep \in 0..MaxSteps : ReplayExecution(e, fromStep)

Spec == Init /\ [][Next]_vars

(***************************************************************************)
(* Workflows are registered, then executed one run after the other;        *)
(* nobody calls stop or replay.                                            *)
(***************************************************************************)
(***************************************************************************)
(* A caller that awaits each call before it makes the next one (the CLI    *)
(* commands): no call is pending.                                          *)
(***************************************************************************)
Idle == \A t \in TaskIds : tasks[t].pc \in {"none", "returned", "threw"}

RunDefs == {def \in DefInputs : def.id = NoId}

NextRun ==
  \/ \E def \in RunDefs : workflows = <<>> /\ RegisterWorkflow(def)
  \/ \E w \in DOMAIN workflows \cup {NonexistentId} : Idle /\ ExecuteWorkflow(w)
  \/ \E t \in TaskIds : HandlerResolve(t)
  \/ \E t \in TaskIds : HandlerReject(t)
  \/ \E t \in TaskIds : TimerFire(t)
  \/ \E t \in TaskIds : BackoffDone(t)
  \/ \E t \in TaskIds : LoopNext(t)
  \/ \E t \in TaskIds : Propagate(t)
  \/ \E o \in orphans : OrphanSettle(o)

SpecRun == Init /\ [][NextRun]_vars

(***************************************************************************)
(* One run of a workflow of built-in steps, then replays of it by a caller *)
(* that awaits each call (the CLI's replay command).                       *)
(***************************************************************************)
ReplayDefs ==
  {def \in RunDefs : \A k \in DOMAIN def.steps : def.steps[k].type \in BuiltinTypes}

NextReplay ==
  \/ \E def \in ReplayDefs : workflows = <<>> /\ RegisterWorkflow(def)
  \/ \E w \in DOMAIN workflows : executions = <<>> /\ ExecuteWorkflow(w)
  \/ \E t \in TaskIds : HandlerResolve(t)
  \/ \E t \in TaskIds : HandlerReject(t)
  \/ \E t \in TaskIds : TimerFire(t)
  \/ \E t \in TaskIds : BackoffDone(t)
  \/ \E t \in TaskIds : LoopNext(t)
  \/ \E t \in TaskIds : Propagate(t)
  \/ \E o \in orphans : OrphanSettle(o)
  \/ \E e \in ExecIds \cup {UnknownExec}, fromStep \in 0..MaxSteps :
       Idle /\ ReplayExecution(e, fromStep)

InitReplay ==
  /\ \E o \in {0, 1} : config = Constructor(o)
  /\ workflows = <<>>
  /\ executions = <<>>
  /\ tasks = [t \in TaskIds |-> NoTask]
  /\ orphans = {}
  /\ events = EmptyBag
  /\ now = 0
  /\ ret = [op |-> "constructor", error |-> NoError]
  /\ StateManagerIdle

SpecReplay == InitReplay /\ [][NextReplay]_vars

(***************************************************************************)
(* The callers of SpecRun, with maxRetries 0 or 1, under the scheduling    *)
(* the event loop guarantees: a timer that was set fires unless it is      *)
(* cleared first (setTimeout, lines 215 and 204), a step function that     *)
(* throws without awaiting anything rejects its promise (lines 253 and     *)
(* 300), and a continuation whose promise settled runs.  Nothing is        *)
(* assumed about the handlers of the built-in steps: they may resolve,     *)
(* reject or stay pending for ever.                                        *)
(***************************************************************************)
ThrowsAtOnce(t) ==
  /\ tasks[t].pc = "await"
  /\ StepOutcomes(tasks[t].steps[tasks[t].i + 1]) = {"reject"}
  /\ HandlerReject(t)

Scheduling ==
  \A t \in TaskIds :
    /\ WF_vars(TimerFire(t))
    /\ WF_vars(ThrowsAtOnce(t))
    /\ WF_vars(BackoffDone(t))
    /\ WF_vars(LoopNext(t))
    /\ WF_vars(Propagate(t))

SpecRunFair == InitReplay /\ [][NextRun]_vars /\ Scheduling

(***************************************************************************)
(* One run of a workflow of built-in steps, with stopExecution called at   *)
(* any moment, for the id of the run and for an id the engine never gave   *)
(* out.                                                                    *)
(***************************************************************************)
NextStop ==
  \/ \E def \in ReplayDefs : workflows = <<>> /\ RegisterWorkflow(def)
  \/ \E w \in DOMAIN workflows : executions = <<>> /\ ExecuteWorkflow(w)
  \/ \E t \in TaskIds : HandlerResolve(t)
  \/ \E t \in TaskIds : HandlerReject(t)
  \/ \E t \in TaskIds : TimerFire(t)
  \/ \E t \in TaskIds : BackoffDone(t)
  \/ \E t \in TaskIds : LoopNext(t)
  \/ \E t \in TaskIds : Propagate(t)
  \/ \E o \in orphans : OrphanSettle(o)
  \/ \E e \in ExecIds \cup {UnknownExec} : StopExecution(e)

SpecStop == InitReplay /\ [][NextStop]_vars

(***************************************************************************)
(* Registrations only: a caller registers definitions, with and without an *)
(* id, valid and invalid, one call after the other.                        *)
(***************************************************************************)
RegDefs ==
  {def \in DefInputs : \A k \in DOMAIN def.steps : def.steps[k].type \in BuiltinTypes}

NextRegister == \E def \in RegDefs : RegisterWorkflow(def)

SpecRegister == Init /\ [][NextRegister]_vars

(***************************************************************************)
(* One run of a workflow of built-in steps whose handlers resolve or       *)
(* reject, with stopExecution and replayExecution called at any moment,    *)
(* also while the run or an earlier replay is waiting for a step or for a  *)
(* backoff delay.                                                          *)
(***************************************************************************)
NextControl ==
  \/ \E def \in ReplayDefs : workflows = <<>> /\ RegisterWorkflow(def)
  \/ \E w \in DOMAIN workflows : executions = <<>> /\ ExecuteWorkflow(w)
  \/ \E t \in TaskIds : HandlerResolve(t)
  \/ \E t \in TaskIds : HandlerReject(t)
  \/ \E t \in TaskIds : BackoffDone(t)
  \/ \E t \in TaskIds : LoopNext(t)
  \/ \E t \in TaskIds : Propagate(t)
  \/ \E e \in ExecIds : StopExecution(e)
  \/ \E e \in ExecIds, fromStep \in 0..MaxSteps : ReplayExecution(e, fromStep)

SpecControl == InitReplay /\ [][NextControl]_vars

(***************************************************************************)
(* The persistent store of the state manager: constructor (lines 13-22),   *)
(* loadOrGenerateKey (36-60) and the save and load operations (125-232).   *)
(* Each call is taken as one step: between its awaits nothing else touches *)
(* the file it works on.                                                   *)
(***************************************************************************)
DefaultMaxStateSize == 52428800
NoSalt == "none"            \* options.salt not supplied
Salts == {"salt1", "salt2"} \* values of crypto.randomBytes(32) for the salt
RawKeys == {"raw1"}         \* values of crypto.randomBytes(32) for a new key
StoreOptions == [salt : {NoSalt, "salt0"}, maxStateSize : {NoOption, 64}]

\* crypto.pbkdf2Sync(keyData, salt, 100000, 32, 'sha512')
Pbkdf2(keyData, salt) == [material |-> keyData, salt |-> salt]

LoadOrGenerateKey(fs, salt, newKey) ==
  IF KeyFile \in DOMAIN fs
  THEN [key |-> Pbkdf2(fs[KeyFile].key, salt), fs |-> fs]
  ELSE [key |-> Pbkdf2(newKey, salt), fs |-> (KeyFile :> RawKey(newKey)) @@ fs]

StateManagerConstructor(options, fs, randomSalt, newKey) ==
  LET salt == IF options.salt # NoSalt THEN options.salt ELSE randomSalt
      k == LoadOrGenerateKey(fs, salt, newKey)
  IN  [sm |-> [algorithm |-> Algorithm,
               keyDerivationSalt |-> salt,
               compressionEnabled |-> TRUE,
               maxStateSize |-> IF options.maxStateSize = NoOption
                                THEN DefaultMaxStateSize
                                ELSE options.maxStateSize,
               encryptionKey |-> k.key,
               options |-> options],
       fs |-> k.fs]

StatePath(id) == [dir |-> "executions", name |-> IdText[id] \o <<".state">>]
DefPath(id) == [dir |-> "workflows", name |-> IdText[id] \o <<".def">>]

\* JSON.stringify(blob, null, 2) as written to a file, and JSON.parse of
\* what is read back, which throws on a file that is not JSON
FileText(blob) == [form |-> "json", blob |-> blob, mtime |-> NoTime]
Garbage == [form |-> "garbage", blob |-> NoBlob, mtime |-> NoTime]
ParseThrows(content) == content.form # "json"

StateTooLarge == "State size exceeds maximum"
ReturnedNull == [error |-> NoError, value |-> NoValue]
ReturnedTrue == [error |-> NoError, value |-> [NoValue EXCEPT !.kind = "true"]]
Threw(err) == [error |-> err, value |-> NoValue]

StoreCall(op, id, arg, result) ==
  [op |-> op, id |-> id, arg |-> arg, data |-> NoValue, sealed |-> NoBlob,
   blob |-> NoBlob, result |-> result]

ExecutionFileIds == {"e1"}
WorkflowFileIds == {"w1"}
CeilingPad == DefaultMaxStateSize - 11
StatePayloads ==
  {[kind |-> "object", pad |-> p, flag |-> "absent", meta |-> NoMeta] :
     p \in {53, 54, CeilingPad, CeilingPad + 1}}
  \cup {[kind |-> "object", pad |-> 0, flag |-> "true", meta |-> NoMeta]}
DefPayloads ==
  {[kind |-> "object", pad |-> 0, flag |-> f, meta |-> NoMeta] : f \in {"absent", "true"}}

(***************************************************************************)
(* Calls of the state manager.  call holds the last call: the payload as   *)
(* it was passed (arg), the caller's object afterwards (data), the blob    *)
(* encrypt returned (sealed), the blob as it reaches decrypt (blob) and    *)
(* what the call returned or threw (result).                               *)
(***************************************************************************)
EncryptCall(x, iv) ==
  LET r == Encrypt(stateManager, x, iv, now)
  IN  /\ call' = [op |-> "encrypt", arg |-> x, data |-> r.data,
                  sealed |-> r.blob, blob |-> r.blob,
                  result |-> [error |-> r.error, value |-> NoValue]]
      /\ UNCHANGED <<init, files, stateManager, config, workflows, executions, tasks,
                     orphans, events, now, ret>>

\* The stored blob is changed before it is read back: bytes of a field are
\* changed, its hex digits are written in upper case, or the tag is cut to
\* its first 12 bytes.
TamperKinds ==
  {<<"encrypted", "flip">>, <<"encrypted", "upper">>,
   <<"authTag", "flip">>, <<"authTag", "upper">>, <<"authTag", "cut">>}

Tampered(h, how) ==
  CASE how = "flip" -> [h EXCEPT !.bytes.delta = "flipped"]
    [] how = "upper" -> [h EXCEPT !.digits = "upper"]
    [] OTHER -> [h EXCEPT !.bytes.size = "short"]

Tamper(k) ==
  /\ call.op = "encrypt"
  /\ call.blob # NoBlob
  /\ call' = [call EXCEPT
                !.op = "tamper",
                !.blob = IF k[1] = "encrypted"
                         THEN [@ EXCEPT !.encrypted = Tampered(@, k[2])]
                         ELSE [@ EXCEPT !.authTag = Tampered(@, k[2])]]
  /\ UNCHANGED <<init, files, stateManager, config, workflows, executions, tasks,
                 orphans, events, now, ret>>

\* Another instance, constructed with options.encryptionKey and
\* options.compression, reads the blob.
OtherInstance(key, compression) ==
  /\ call.op \in {"encrypt", "tamper"}
  /\ stateManager' = NewStateManager(key, compression)
  /\ stateManager' # stateManager
  /\ UNCHANGED <<init, files, call, config, workflows, executions, tasks, orphans,
                 events, now, ret>>

DecryptCall ==
  /\ call.op \in {"encrypt", "tamper"}
  /\ call.blob # NoBlob
  /\ call' = [call EXCEPT !.op = "decrypt",
                          !.result = Decrypt(stateManager, call.blob)]
  /\ UNCHANGED <<init, files, stateManager, config, workflows, executions, tasks,
                 orphans, events, now, ret>>

InitState ==
  /\ config = Constructor(NoOption)
  /\ workflows = <<>>
  /\ executions = <<>>
  /\ tasks = [t \in TaskIds |-> NoTask]
  /\ orphans = {}
  /\ events = EmptyBag
  /\ now = 0
  /\ ret = [op |-> "constructor", error |-> NoError]
  /\ \E key \in Keys, compression \in BOOLEAN :
       stateManager = NewStateManager(key, compression)
  /\ call = NoCall
  /\ files = StateDirs
  /\ init = InitDone

NextState ==
  \/ \E x \in Payloads, iv \in IVs : EncryptCall(x, iv)
  \/ \E k \in TamperKinds : Tamper(k)
  \/ \E key \in Keys, compression \in BOOLEAN : OtherInstance(key, compression)
  \/ DecryptCall

SpecState == InitState /\ [][NextState]_vars

(***************************************************************************)
(* saveExecutionState, lines 125-159.                                      *)
(***************************************************************************)
\* the guard also rejects a state of exactly the maximum size
SizeGuard_AtCeiling(sm, stateSize) == stateSize >= sm.maxStateSize

\* line 128
SizeGuard(sm, stateSize) == stateSize > sm.maxStateSize

SaveExecutionState(id, state, iv) ==
  LET stateSize == JsonStringify(state).length
      stored == [state EXCEPT !.meta = [of |-> "execution", id |-> id, size |-> stateSize, at |-> NoTime]]
      r == Encrypt(stateManager, stored, iv, now)
  IN  /\ IF SizeGuard(stateManager, stateSize)
         THEN /\ files' = files
              /\ call' = StoreCall("saveExecutionState", id, state, Threw(StateTooLarge))
         ELSE IF r.error # NoError
         THEN /\ files' = files
              /\ call' = StoreCall("saveExecutionState", id, state, Threw(r.error))
         ELSE IF ~CanWrite(files, StatePath(id))
         THEN /\ files' = files
              /\ call' = StoreCall("saveExecutionState", id, state, Threw(NoSuchDirectory))
         ELSE /\ files' = WriteFile(files, StatePath(id), FileText(r.blob), now)
              /\ call' = StoreCall("saveExecutionState", id, state, ReturnedTrue)
      /\ UNCHANGED <<init, stateManager, config, workflows, executions, tasks,
                     orphans, events, now, ret>>

(***************************************************************************)
(* loadExecutionState, lines 161-185, and loadWorkflowDefinition, lines    *)
(* 212-232: null when the file does not exist, and null from the catch     *)
(* block when reading, parsing or decrypting throws.                       *)
(***************************************************************************)
LoadFile(sm, fs, path) ==
  IF path \notin DOMAIN fs THEN ReturnedNull
  ELSE IF ParseThrows(fs[path]) THEN ReturnedNull
  ELSE IF Decrypt(sm, fs[path].blob).error # NoError THEN ReturnedNull
  ELSE Decrypt(sm, fs[path].blob)

LoadExecutionState(id) ==
  /\ call' = StoreCall("loadExecutionState", id, NoValue,
                       LoadFile(stateManager, files, StatePath(id)))
  /\ UNCHANGED <<init, files, stateManager, config, workflows, executions, tasks,
                 orphans, events, now, ret>>

(***************************************************************************)
(* saveWorkflowDefinition, lines 187-210.                                  *)
(***************************************************************************)
SaveWorkflowDefinition(id, definition, iv) ==
  LET stored == [definition EXCEPT !.meta = [of |-> "workflow", id |-> id, size |-> 0, at |-> NoTime]]
      r == Encrypt(stateManager, stored, iv, now)
  IN  /\ IF r.error # NoError
         THEN /\ files' = files
              /\ call' = StoreCall("saveWorkflowDefinition", id, definition, Threw(r.error))
         ELSE IF ~CanWrite(files, DefPath(id))
         THEN /\ files' = files
              /\ call' = StoreCall("saveWorkflowDefinition", id, definition,
                                   Threw(NoSuchDirectory))
         ELSE /\ files' = WriteFile(files, DefPath(id), FileText(r.blob), now)
              /\ call' = StoreCall("saveWorkflowDefinition", id, definition, ReturnedTrue)
      /\ UNCHANGED <<init, stateManager, config, workflows, executions, tasks,
                     orphans, events, now, ret>>

LoadWorkflowDefinition(id) ==
  /\ call' = StoreCall("loadWorkflowDefinition", id, NoValue,
                       LoadFile(stateManager, files, DefPath(id)))
  /\ UNCHANGED <<init, files, stateManager, config, workflows, executions, tasks,
                 orphans, events, now, ret>>

(***************************************************************************)
(* A stored file is damaged on disk: overwritten with text that is not     *)
(* JSON, or bytes of its ciphertext changed.                               *)
(***************************************************************************)
Damaged(content, how) ==
  IF how = "garbage" THEN [Garbage EXCEPT !.mtime = content.mtime]
  ELSE [content EXCEPT !.blob.encrypted = Tampered(@, "flip")]

DamageFile(path, how) ==
  /\ path \in DOMAIN files \ {KeyFile}
  /\ files[path].form = "json"
  /\ files[path].blob.encrypted.bytes.delta = "none"
  /\ files' = [files EXCEPT ![path] = Damaged(@, how)]
  /\ UNCHANGED <<init, stateManager, call, config, workflows, executions, tasks,
                 orphans, events, now, ret>>

(***************************************************************************)
(* The process restarts: a new instance is constructed with the options of *)
(* the old one, over the files the old one left.                           *)
(***************************************************************************)
Restart(randomSalt, newKey) ==
  LET c == StateManagerConstructor(stateManager.options, files, randomSalt, newKey)
  IN  /\ stateManager' = c.sm
      /\ files' = c.fs
      /\ call' = StoreCall("constructor", "none", NoValue, ReturnedTrue)
      /\ init' = 0
      /\ UNCHANGED <<config, workflows, executions, tasks, orphans, events, now, ret>>

(***************************************************************************)
(* init, lines 24-34, runs on after the constructor has returned: each     *)
(* step is one ensureDir that completes.                                   *)
(***************************************************************************)
InitStep ==
  /\ init < InitDone
  /\ files' = EnsureDir(files, InitDirs[init + 1])
  /\ init' = init + 1
  /\ UNCHANGED <<stateManager, call, config, workflows, executions, tasks, orphans,
                 events, now, ret>>

InitStore ==
  /\ config = Constructor(NoOption)
  /\ workflows = <<>>
  /\ executions = <<>>
  /\ tasks = [t \in TaskIds |-> NoTask]
  /\ orphans = {}
  /\ events = EmptyBag
  /\ now = 0
  /\ ret = [op |-> "constructor", error |-> NoError]
  /\ \E options \in StoreOptions, randomSalt \in Salts, newKey \in RawKeys :
       LET c == StateManagerConstructor(options, StateDirs, randomSalt, newKey)
       IN  stateManager = c.sm /\ files = c.fs
  /\ call = StoreCall("constructor", "none", NoValue, ReturnedTrue)
  /\ init = InitDone

NextStore ==
  \/ \E id \in ExecutionFileIds, state \in StatePayloads :
       SaveExecutionState(id, state, "iv1")
  \/ \E id \in ExecutionFileIds : LoadExecutionState(id)
  \/ \E id \in WorkflowFileIds, definition \in DefPayloads :
       SaveWorkflowDefinition(id, definition, "iv1")
  \/ \E id \in WorkflowFileIds : LoadWorkflowDefinition(id)
  \/ \E path \in DOMAIN files, how \in {"garbage", "flip"} : DamageFile(path, how)
  \/ \E randomSalt \in Salts, newKey \in RawKeys : Restart(randomSalt, newKey)
  \/ InitStep

SpecStore == InitStore /\ [][NextStore]_vars

(***************************************************************************)
(* Snapshots: createSnapshot (lines 234-265), listSnapshots (321-340),     *)
(* deleteSnapshot (380-394) and deleteExecutionState (342-362).            *)
(***************************************************************************)
EndsWith(file, ext) == file # <<>> /\ file[Len(file)] = ext
Basename(file) == SubSeq(file, 1, Len(file) - 1)
StartsWith(text, prefix) ==
  Len(text) >= Len(prefix) /\ SubSeq(text, 1, Len(prefix)) = prefix

SnapshotFile(snapshotId) == [dir |-> "snapshots", name |-> snapshotId \o <<".snap">>]

\* the string createSnapshot returns, by its length
ReturnedString(text) ==
  [error |-> NoError, value |-> [NoValue EXCEPT !.kind = "string", !.pad = Len(text)]]

SnapshotPayload == [kind |-> "object", pad |-> 0, flag |-> "absent", meta |-> NoMeta]

\* _metadata of a snapshot: size holds stepIndex and at holds Date.now()
CreateSnapshot(executionId, stepIndex, state, iv) ==
  LET snapshotId == SnapshotId(executionId, stepIndex, now)
      stored == [state EXCEPT !.meta = [of |-> "snapshot", id |-> executionId,
                                        size |-> stepIndex, at |-> now]]
      r == Encrypt(stateManager, stored, iv, now)
  IN  /\ IF r.error # NoError
         THEN /\ files' = files
              /\ call' = StoreCall("createSnapshot", executionId, state, Threw(r.error))
         ELSE IF ~CanWrite(files, SnapshotFile(snapshotId))
         THEN /\ files' = files
              /\ call' = StoreCall("createSnapshot", executionId, state,
                                   Threw(NoSuchDirectory))
         ELSE /\ files' = WriteFile(files, SnapshotFile(snapshotId), FileText(r.blob), now)
              /\ call' = StoreCall("createSnapshot", executionId, state,
                                   ReturnedString(snapshotId))
      /\ UNCHANGED <<init, stateManager, config, workflows, executions, tasks,
                     orphans, events, now, ret>>

\* fs.readdir: the names in a directory
ReadDir(fs, d) == {path.name : path \in {q \in DOMAIN fs : q.dir = d}}

\* the catch block returns [] when the directory cannot be read
ListSnapshots(fs, executionId) ==
  LET snapshots == {Basename(file) : file \in {f \in ReadDir(fs, "snapshots") :
                                                 EndsWith(f, ".snap")}}
  IN  IF Namespace("snapshots") \notin DOMAIN fs THEN {}
      ELSE {snapshot \in snapshots : StartsWith(snapshot, IdText[executionId] \o <<"_">>)}

\* fs.remove: no error when the path does not exist
Remove(fs, paths) == [q \in DOMAIN fs \ paths |-> fs[q]]

DeleteSnapshot(fs, snapshotId) == Remove(fs, {SnapshotFile(snapshotId)})

DeleteExecutionState(executionId) ==
  LET removed == Remove(files, {StatePath(executionId)})
      snapshots == ListSnapshots(removed, executionId)
  IN  /\ files' = Remove(removed, {SnapshotFile(snapshotId) : snapshotId \in snapshots})
      /\ call' = StoreCall("deleteExecutionState", executionId, NoValue, ReturnedTrue)
      /\ UNCHANGED <<init, stateManager, config, workflows, executions, tasks,
                     orphans, events, now, ret>>

\* ids of which one is a prefix of another, and one that extends another
\* with an underscore
CascadeIds == {"e1", "e1_x", "e10"}

NextCascade ==
  \/ \E id \in CascadeIds : SaveExecutionState(id, SnapshotPayload, "iv1")
  \/ \E id \in CascadeIds : CreateSnapshot(id, 0, SnapshotPayload, "iv1")
  \/ \E id \in WorkflowFileIds, definition \in DefPayloads :
       SaveWorkflowDefinition(id, definition, "iv1")
  \/ \E id \in CascadeIds : DeleteExecutionState(id)

SpecCascade == InitStore /\ [][NextCascade]_vars

(***************************************************************************)
(* cleanup, lines 431-467.  The two directories are scanned in order; a    *)
(* readdir that fails throws after the files of the directory before it    *)
(* were removed.                                                           *)
(***************************************************************************)
DayMs == 86400000           \* 24 * 60 * 60 * 1000
DefaultOlderThanDays == 30
CleanupOptions == {NoOption, 0, 1}

\* the workflows directory is scanned as well
CleanupDirs_WithWorkflows ==
  <<[dir |-> "executions", ext |-> ".state"], [dir |-> "snapshots", ext |-> ".snap"],
    [dir |-> "workflows", ext |-> ".def"]>>

\* lines 436-439
CleanupDirs ==
  <<[dir |-> "executions", ext |-> ".state"], [dir |-> "snapshots", ext |-> ".snap"]>>

ReturnedNumber(n) ==
  [error |-> NoError, value |-> [NoValue EXCEPT !.kind = "count", !.pad = n]]

OlderThanDays(olderThanDays) ==
  IF olderThanDays = NoOption THEN DefaultOlderThanDays ELSE olderThanDays

\* mtime < cutoffTime, where cutoffTime = t - olderThanDays * DayMs: the
\* same comparison on the age t - mtime, by quotient and remainder, since
\* the product for 30 days is above 2^31
BeforeCutoff(mtime, t, olderThanDays) ==
  LET age == t - mtime
  IN  \/ age \div DayMs > olderThanDays
      \/ age \div DayMs = olderThanDays /\ age % DayMs > 0

\* the files of one directory that cleanup removes
Expired(fs, d, t, olderThanDays) ==
  {path \in DOMAIN fs : /\ path.dir = d.dir
                        /\ EndsWith(path.name, d.ext)
                        /\ BeforeCutoff(fs[path].mtime, t, olderThanDays)}

RECURSIVE CleanupFrom(_, _, _, _, _)
CleanupFrom(fs, k, t, olderThanDays, cleanedCount) ==
  IF k > Len(CleanupDirs)
  THEN [fs |-> fs, result |-> ReturnedNumber(cleanedCount)]
  ELSE IF Namespace(CleanupDirs[k].dir) \notin DOMAIN fs
  THEN [fs |-> fs, result |-> Threw(NoSuchDirectory)]
  ELSE LET old == Expired(fs, CleanupDirs[k], t, olderThanDays)
       IN  CleanupFrom(Remove(fs, old), k + 1, t, olderThanDays,
                       cleanedCount + Cardinality(old))

Cleanup(olderThanDays) ==
  LET c == CleanupFrom(files, 1, now, OlderThanDays(olderThanDays), 0)
  IN  /\ files' = c.fs
      /\ call' = StoreCall("cleanup", "none", NoValue, c.result)
      /\ UNCHANGED <<init, stateManager, config, workflows, executions, tasks,
                     orphans, events, now, ret>>

\* Date.now() and the modification times move on: by a millisecond or a day
Tick(dt) ==
  /\ IF dt = 1 THEN now % DayMs < MaxMs ELSE now \div DayMs < MaxDays
  /\ now' = now + dt
  /\ UNCHANGED <<init, files, stateManager, call, config, workflows, executions,
                 tasks, orphans, events, ret>>

SnapshotFiles(fs) == {path \in DOMAIN fs : path.dir = "snapshots"}

NextCleanup ==
  \/ \E id \in ExecutionFileIds : SaveExecutionState(id, SnapshotPayload, "iv1")
  \/ \E id \in ExecutionFileIds :
       /\ Cardinality(SnapshotFiles(files)) < MaxSnapshots
       /\ CreateSnapshot(id, 0, SnapshotPayload, "iv1")
  \/ \E id \in WorkflowFileIds : SaveWorkflowDefinition(id, SnapshotPayload, "iv1")
  \/ \E olderThanDays \in CleanupOptions : Cleanup(olderThanDays)
  \/ \E dt \in {1, DayMs} : Tick(dt)

SpecCleanup == InitStore /\ [][NextCleanup]_vars

(***************************************************************************)
(* A manager constructed on a machine that has no state directory yet:    *)
(* the constructor (line 21) calls init without awaiting it, so the calls  *)
(* of the caller interleave with the ensureDir calls of init.              *)
(***************************************************************************)
EmptyDisk == [q \in {} |-> Directory]

InitFresh ==
  /\ config = Constructor(NoOption)
  /\ workflows = <<>>
  /\ executions = <<>>
  /\ tasks = [t \in TaskIds |-> NoTask]
  /\ orphans = {}
  /\ events = EmptyBag
  /\ now = 0
  /\ ret = [op |-> "constructor", error |-> NoError]
  /\ \E options \in StoreOptions, randomSalt \in Salts, newKey \in RawKeys :
       LET c == StateManagerConstructor(options, EmptyDisk, randomSalt, newKey)
       IN  stateManager = c.sm /\ files = c.fs
  /\ call = StoreCall("constructor", "none", NoValue, ReturnedTrue)
  /\ init = 0

NextInit ==
  \/ InitStep
  \/ \E id \in ExecutionFileIds : SaveExecutionState(id, SnapshotPayload, "iv1")
  \/ \E id \in ExecutionFileIds : LoadExecutionState(id)
  \/ \E id \in WorkflowFileIds : SaveWorkflowDefinition(id, SnapshotPayload, "iv1")
  \/ \E id \in WorkflowFileIds : LoadWorkflowDefinition(id)
  \/ \E id \in ExecutionFileIds : CreateSnapshot(id, 0, SnapshotPayload, "iv1")

SpecInit == InitFresh /\ [][NextInit]_vars

(***************************************************************************)
(* Counting the attempts of a run from the events it emitted.              *)
(***************************************************************************)
Started(e, i) == CopiesIn(StepStarted(e, i), events)
Completed(e, i) == CopiesIn(Event("step:completed", e, NoId, i, NoError), events)
Finished(t) == tasks[t].pc \in {"returned", "threw"}
ExecuteTasks == {t \in TaskIds : tasks[t].kind = "execute"}

\* the step at index i failed on every attempt, the earlier ones succeeded at once
FailsAlways(t, i) ==
  LET e == tasks[t].exec
  IN /\ i < Len(tasks[t].steps)
     /\ tasks[t].steps[i + 1].retryable # FALSE
     /\ Started(e, i) >= 1
     /\ Completed(e, i) = 0
     /\ \A j \in 0..(i - 1) : Started(e, j) = 1 /\ Completed(e, j) = 1

(***************************************************************************)
(* C1  Retry exhaustion: with maxRetries = k, a run whose step i fails on  *)
(* every attempt (retryable, earlier steps succeeded on their first        *)
(* attempt) makes exactly k+1 attempts at index i and ends failed.         *)
(***************************************************************************)
C1_RetryExhaustion ==
  \A t \in ExecuteTasks : \A i \in StepIndexes :
    FailsAlways(t, i) =>
      /\ Started(tasks[t].exec, i) <= config.maxRetries + 1
      /\ Finished(t) =>
           /\ Started(tasks[t].exec, i) = config.maxRetries + 1
           /\ executions[tasks[t].exec].status = "failed"

C1_Witness ==
  \E t \in ExecuteTasks :
    /\ Finished(t) /\ FailsAlways(t, 1)
    /\ config.maxRetries = 3
    /\ Started(tasks[t].exec, 1) = 4
    /\ executions[tasks[t].exec].status = "failed"

(***************************************************************************)
(* C2  Shared retry budget: a failed attempt is retried iff the step is    *)
(* retryable and the execution-wide retryCount is below maxRetries when it *)
(* fails; so the retries of a run, summed over all its steps, never exceed *)
(* maxRetries and a later step gets what the earlier steps left over.      *)
(***************************************************************************)
RECURSIVE RetriesUpTo(_, _)
RetriesUpTo(e, i) ==
  IF i < 0 THEN 0
  ELSE (IF Started(e, i) > 0 THEN Started(e, i) - 1 ELSE 0) + RetriesUpTo(e, i - 1)

Retries(e) == RetriesUpTo(e, MaxSteps - 1)

AttemptFailed(t) ==
  /\ tasks[t].pc = "await"
  /\ tasks'[t].pc \in {"backoff", "throwing"}

C2_BudgetInv ==
  \A e \in ExecIds :
    /\ executions[e].retryCount <= config.maxRetries
    /\ Retries(e) <= executions[e].retryCount
    /\ Retries(e) <= config.maxRetries

C2_RetryRule ==
  \A t \in TaskIds :
    AttemptFailed(t) =>
      LET ex == executions[tasks[t].exec]
          stepDef == tasks[t].steps[tasks[t].i + 1]
      IN /\ tasks'[t].pc = "backoff" <=>
              (stepDef.retryable # FALSE /\ ex.retryCount < config.maxRetries)
         /\ tasks'[t].pc = "backoff" =>
              executions'[tasks[t].exec].retryCount = ex.retryCount + 1
         /\ tasks'[t].pc = "throwing" =>
              executions'[tasks[t].exec].retryCount = ex.retryCount

C2_SharedBudget == [](C2_BudgetInv) /\ [][C2_RetryRule]_vars

\* step 0 used the only retry; step 1, retryable, failed once and was not retried
C2_Witness ==
  \E t \in ExecuteTasks :
    LET e == tasks[t].exec
    IN /\ tasks[t].pc = "threw" /\ tasks[t].i = 1
       /\ config.maxRetries = 1
       /\ tasks[t].steps[2].retryable
       /\ Started(e, 0) = 2 /\ Completed(e, 0) = 1
       /\ Started(e, 1) = 1

(***************************************************************************)
(* C3  Sequential steps: step i+1 is dispatched only after the record of   *)
(* step i is completed (its startTime is not before step i's endTime), and *)
(* after a step has failed no step with a higher index is dispatched.      *)
(***************************************************************************)
C3_Sequential ==
  \A e \in ExecIds : \A i \in StepIndexes :
    LET st == executions[e].steps
    IN /\ (i + 1 \in StepIndexes /\ st[i + 1] # NoStep) =>
            /\ st[i] # NoStep
            /\ st[i].status = "completed"
            /\ st[i + 1].startTime >= st[i].endTime
       /\ (st[i] # NoStep /\ st[i].status = "failed") =>
            \A j \in StepIndexes : j > i => st[j] = NoStep

C3_Witness ==
  \E e \in ExecIds :
    LET st == executions[e].steps
    IN /\ st[0] # NoStep /\ st[1] # NoStep
       /\ st[0].endTime > st[0].startTime
       /\ st[1].status = "failed"
       /\ st[1].startTime >= st[0].endTime

(***************************************************************************)
(* C4  Failure outcome: when step k of a run fails without recovery, the   *)
(* execution ends failed with the failure's message and endTime set, the   *)
(* error is thrown to the caller, steps below k are completed, step k is   *)
(* failed and no record exists above k.                                    *)
(***************************************************************************)
FailedAt(ex, k) ==
  /\ ex.steps[k] # NoStep
  /\ ex.steps[k].status = "failed"
  /\ ex.steps[k].error = ex.error
  /\ \A j \in StepIndexes : j < k => (ex.steps[j] # NoStep /\ ex.steps[j].status = "completed")
  /\ \A j \in StepIndexes : j > k => ex.steps[j] = NoStep
  /\ StepsLength(ex) = k + 1

C4_FailureOutcome ==
  /\ \A t \in ExecuteTasks :
       tasks[t].pc = "threw" =>
         LET ex == executions[tasks[t].exec]
         IN /\ ex.status = "failed"
            /\ ex.error = tasks[t].error
            /\ ex.error # NoError
            /\ ex.endTime # NoTime
            /\ FailedAt(ex, tasks[t].i)
            /\ CopiesIn(Event("execution:failed", tasks[t].exec, ex.workflowId, NoIndex,
                               ex.error), events) >= 1
  /\ \A e \in ExecIds :
       executions[e].status = "failed" =>
         /\ executions[e].endTime # NoTime
         /\ \E k \in StepIndexes : FailedAt(executions[e], k)

C4_Witness ==
  \E t \in ExecuteTasks :
    /\ tasks[t].pc = "threw" /\ tasks[t].i = 1
    /\ executions[tasks[t].exec].status = "failed"
    /\ executions[tasks[t].exec].error = TimeoutError
    /\ executions[tasks[t].exec].steps[0].status = "completed"

(***************************************************************************)
(* C5  Success outcome: a run of an N-step workflow in which every step    *)
(* succeeds within the budget returns with the execution completed (from   *)
(* running), endTime set, steps.length = N and every record completed;     *)
(* a retry rewrites the record at its index.                               *)
(***************************************************************************)
C5_Returned ==
  \A t \in ExecuteTasks :
    tasks[t].pc = "returned" =>
      LET ex == executions[tasks[t].exec]
          N == Len(tasks[t].steps)
      IN /\ ex.status = "completed"
         /\ ex.endTime # NoTime
         /\ ex.error = NoError
         /\ StepsLength(ex) = N
         /\ \A j \in 0..(N - 1) : ex.steps[j] # NoStep /\ ex.steps[j].status = "completed"
         /\ \A j \in 0..(N - 1) : Started(tasks[t].exec, j) >= 1 /\ Completed(tasks[t].exec, j) = 1

C5_StatusStep ==
  \A e \in ExecIds :
    /\ e \in DOMAIN executions' /\ executions'[e].status # executions[e].status =>
         executions[e].status = "running"
    /\ e \in DOMAIN executions' /\ executions'[e].status = "completed"
        /\ executions[e].status # "completed" =>
         \E t \in TaskIds : tasks[t].exec = e /\ tasks[t].pc = "settled"
                              /\ tasks'[t].pc = "returned"
                              /\ tasks[t].i = Len(tasks[t].steps) - 1

C5_SuccessOutcome == [](C5_Returned) /\ [][C5_StatusStep]_vars

C5_Witness ==
  \E t \in ExecuteTasks :
    /\ tasks[t].pc = "returned"
    /\ Len(tasks[t].steps) = 2
    /\ Started(tasks[t].exec, 0) = 2
    /\ StepsLength(executions[tasks[t].exec]) = 2
    /\ executions[tasks[t].exec].status = "completed"

(***************************************************************************)
(* C7  Timeout enforcement: when the timer fires on a pending handler the  *)
(* attempt is marked failed with the timeout error and the retry rule      *)
(* applies; what the orphaned handler does later changes neither a         *)
(* StepExecution record nor the status of the execution.                   *)
(***************************************************************************)
C7_TimerStep ==
  \A t \in TaskIds :
    (AttemptFailed(t) /\ orphans' # orphans) =>
      LET e == tasks[t].exec
          se == executions'[e].steps[tasks[t].i]
      IN /\ orphans' = orphans \cup {[exec |-> e, index |-> tasks[t].i]}
         /\ se.status = "failed"
         /\ se.error = TimeoutError
         /\ se.endTime = now'
         /\ executions'[e].status = executions[e].status
         /\ tasks'[t].pc = "backoff" <=>
              ShouldRetry(executions[e], tasks[t].steps[tasks[t].i + 1])

C7_OrphanStep ==
  (orphans' # orphans /\ orphans' \subseteq orphans) =>
     /\ executions' = executions
     /\ tasks' = tasks
     /\ events' = events

C7_Timeout == [][C7_TimerStep /\ C7_OrphanStep]_vars

\* an attempt timed out and its orphaned handler has settled since
C7_Witness ==
  \E e \in ExecIds : \E i \in StepIndexes :
    /\ executions[e].steps[i] # NoStep
    /\ executions[e].steps[i].status = "failed"
    /\ executions[e].steps[i].error = TimeoutError
    /\ [exec |-> e, index |-> i] \notin orphans
    /\ executions[e].status = "failed"

(***************************************************************************)
(* C8  Unknown workflow: executeWorkflow with an unregistered id fails     *)
(* with "Workflow not found", creates no execution record and emits no     *)
(* event; every execution that is created belongs to a registered id.      *)
(***************************************************************************)
NotFound == [op |-> "executeWorkflow", error |-> "Workflow not found"]

C8_CallStep ==
  /\ (ret' = NotFound /\ ret # NotFound) =>
        /\ executions' = executions
        /\ events' = events
        /\ tasks' = tasks
  /\ \A e \in DOMAIN executions' \ DOMAIN executions :
        /\ executions'[e].workflowId \in DOMAIN workflows
        /\ executions'[e].status = "running"
        /\ ret'.error = NoError
  /\ \A e \in DOMAIN executions : e \in DOMAIN executions'

C8_UnknownWorkflow ==
  [](NonexistentId \notin DOMAIN workflows
     /\ \A e \in ExecIds : executions[e].workflowId # NonexistentId)
  /\ [][C8_CallStep]_vars

C8_Witness ==
  /\ ret = NotFound
  /\ DOMAIN workflows # {}
  /\ executions = <<>>
  /\ EventCount("execution:started") = 0

(***************************************************************************)
(* C6  Replay scope: replayExecution(id, fromStep) with 0 <= fromStep < N  *)
(* runs the steps at fromStep..N-1 in increasing index order, each step of *)
(* the replay writes only the record at the index it is running, and every *)
(* record below fromStep stays as it was, whatever the replayed steps do.  *)
(***************************************************************************)
ReplayActs(t) == tasks'[t].kind = "replay" /\ tasks'[t] # tasks[t]
ReplayBegins == EventCount("execution:replaying")' = EventCount("execution:replaying") + 1

C6_ReplayStep ==
  \A t \in TaskIds :
    (ReplayActs(t) /\ tasks'[t].from < Len(tasks'[t].steps)) =>
      LET e == tasks'[t].exec
          from == tasks'[t].from
          N == Len(tasks'[t].steps)
      IN /\ \A j \in StepIndexes :
              j < from => executions'[e].steps[j] = executions[e].steps[j]
         /\ \A j \in StepIndexes :
              j # tasks'[t].i => executions'[e].steps[j] = executions[e].steps[j]
         /\ tasks'[t].i >= from /\ tasks'[t].i < N
         /\ ReplayBegins => (tasks'[t].i = from /\ tasks'[t].pc = "await")
         /\ ~ReplayBegins => tasks'[t].i \in {tasks[t].i, tasks[t].i + 1}
         /\ (~ReplayBegins /\ tasks'[t].i = tasks[t].i + 1) =>
              (tasks[t].pc = "settled" /\ tasks'[t].pc = "await"
               /\ executions[e].steps[tasks[t].i].status = "completed")
         /\ tasks'[t].pc = "await" =>
              (executions'[e].steps[tasks'[t].i].status = "running"
               \/ tasks[t].pc = "await")
         /\ tasks'[t].pc = "returned" =>
              /\ tasks'[t].i = N - 1
              /\ \A j \in from..(N - 1) : executions'[e].steps[j].status = "completed"

C6_ReplayScope == [][C6_ReplayStep]_vars

\* replay from step 1 of a 2-step run: step 1 failed again, record 0 is the old one
C6_Witness ==
  \E t \in TaskIds :
    /\ tasks[t].kind = "replay" /\ tasks[t].from = 1 /\ tasks[t].pc = "threw"
    /\ Len(tasks[t].steps) = 2
    /\ executions[tasks[t].exec].steps[0].status = "completed"
    /\ executions[tasks[t].exec].steps[1].status = "failed"
    /\ executions[tasks[t].exec].steps[1].startTime > executions[tasks[t].exec].endTime

(***************************************************************************)
(* The key a blob was sealed under, and whether the blob that reached      *)
(* decrypt is the one encrypt returned, read under that key.               *)
(***************************************************************************)
SealedKey == FromHex(call.sealed.encrypted).key
Untouched == call.blob = call.sealed /\ stateManager.encryptionKey = SealedKey

(***************************************************************************)
(* C9: for every payload that encrypt accepted, decrypt of the blob it     *)
(* returned, under the same key, succeeds and returns a value equal to the *)
(* payload.                                                                *)
(***************************************************************************)
C9_RoundTrip ==
  (call.op = "decrypt" /\ Untouched)
    => /\ call.result.error = NoError
       /\ call.result.value = JsonParse(JsonStringify(call.arg))

(***************************************************************************)
(* C10: decrypt of a blob whose encrypted or authTag field differs from    *)
(* the one encrypt returned, or decrypt under another key, throws and      *)
(* returns no value.                                                       *)
(***************************************************************************)
C10_TamperDetection ==
  (/\ call.op = "decrypt"
   /\ \/ call.blob.encrypted # call.sealed.encrypted
      \/ call.blob.authTag # call.sealed.authTag
      \/ stateManager.encryptionKey # SealedKey)
    => /\ call.result.error = DecryptError
       /\ call.result.value = NoValue

(***************************************************************************)
(* The stored files of the state directory, and whether one is as the      *)
(* instance that saved it wrote it.                                        *)
(***************************************************************************)
StoredPaths == DOMAIN files \ {KeyFile}
Intact(path) ==
  /\ files[path].form = "json"
  /\ FromHex(files[path].blob.encrypted).delta = "none"
LoadedPath ==
  IF call.op = "loadExecutionState" THEN StatePath(call.id) ELSE DefPath(call.id)

(***************************************************************************)
(* C11: a load returns null only when no file is stored under the id; when *)
(* a file is stored but cannot be parsed or decrypted the load throws.     *)
(***************************************************************************)
C11_AbsentVersusCorrupted ==
  call.op \in {"loadExecutionState", "loadWorkflowDefinition"} =>
    /\ call.result = ReturnedNull => LoadedPath \notin DOMAIN files
    /\ (/\ LoadedPath \in DOMAIN files
        /\ \/ ParseThrows(files[LoadedPath])
           \/ Decrypt(stateManager, files[LoadedPath].blob).error # NoError)
         => call.result.error # NoError

(***************************************************************************)
(* C12: an instance constructed with the same options over the same key    *)
(* file has the same cipher key as the one before it, so every file that   *)
(* an earlier instance stored, and that is intact, is sealed under the key *)
(* of the current instance.                                                *)
(***************************************************************************)
C12_SameOptions ==
  (stateManager'.options = stateManager.options /\ files'[KeyFile] = files[KeyFile])
    => stateManager'.encryptionKey = stateManager.encryptionKey

C12_DeterministicKey ==
  /\ [](\A path \in StoredPaths :
          Intact(path) =>
            FromHex(files[path].blob.encrypted).key = stateManager.encryptionKey)
  /\ [][C12_SameOptions]_vars

(***************************************************************************)
(* C20: saveExecutionState of a state whose serialized size is above the   *)
(* maximum throws the size error and leaves every file as it was; a state  *)
(* of at most the maximum size is not rejected for its size.               *)
(***************************************************************************)
C20_SaveStep ==
  \A id \in ExecutionFileIds, state \in StatePayloads :
    SaveExecutionState(id, state, "iv1") =>
      /\ SerializedLength(state) > stateManager.maxStateSize =>
           (call'.result = Threw(StateTooLarge) /\ files' = files)
      /\ SerializedLength(state) <= stateManager.maxStateSize =>
           call'.result.error # StateTooLarge

C20_SizeGuard == [][C20_SaveStep]_vars

\* a state above the maximum was rejected; the file stored before for the
\* same id, of a state of exactly the maximum size, is still there
C20_Witness ==
  /\ call.op = "saveExecutionState"
  /\ call.result = Threw(StateTooLarge)
  /\ SerializedLength(call.arg) = stateManager.maxStateSize + 1
  /\ StatePath(call.id) \in DOMAIN files
  /\ Intact(StatePath(call.id))
  /\ FromHex(files[StatePath(call.id)].blob.encrypted).text.meta.size
       = stateManager.maxStateSize

(***************************************************************************)
(* C13  No retry for definition errors: an attempt that fails because the  *)
(* step's type is unknown, or because a custom step has no handler, is     *)
(* never retried: the error goes straight to the caller and retryCount     *)
(* stays as it was, whatever the retryable flag and the remaining budget.  *)
(***************************************************************************)
DefinitionErrors == {"Unknown step type", "Custom step requires handler function"}

C13_FailedAttempt ==
  \A t \in TaskIds :
    (AttemptFailed(t) /\ StepError(tasks[t].steps[tasks[t].i + 1]) \in DefinitionErrors) =>
      /\ tasks'[t].pc = "throwing"
      /\ executions'[tasks[t].exec].retryCount = executions[tasks[t].exec].retryCount
      /\ Started(tasks[t].exec, tasks[t].i) = 1

C13_NoRetryForDefinitionErrors == [][C13_FailedAttempt]_vars

(***************************************************************************)
(* C14  Custom step dispatch: a step record carries the error "Custom step *)
(* requires handler function" iff the StepSpec handed to registerWorkflow  *)
(* at that index was a custom step without a handler; a custom step that   *)
(* was registered with a handler never fails with that error.              *)
(***************************************************************************)
RegisteredStep(e, i) == workflows[executions[e].workflowId].steps[i + 1]

C14_CustomDispatch ==
  \A e \in ExecIds : \A i \in StepIndexes :
    LET st == executions[e].steps[i]
    IN (st # NoStep /\ st.status \in {"failed", "completed"}) =>
         (st.error = "Custom step requires handler function"
            <=> /\ RegisteredStep(e, i).type = "custom"
                /\ ~HasHandler(RegisteredStep(e, i)))

(***************************************************************************)
(* C15  Registration validation: a registerWorkflow call with a definition *)
(* that lacks name, trigger or steps, or whose steps are empty, fails with *)
(* the validation error, stores nothing and emits nothing, with or without *)
(* a supplied id; any other call stores the definition under its id and    *)
(* emits workflow:registered.                                              *)
(***************************************************************************)
ValidationError == "Invalid workflow definition"

InvalidDefinition(def) ==
  \/ def.name = "undefined"
  \/ def.trigger = "undefined"
  \/ ~def.hasSteps
  \/ Len(def.steps) = 0

RegisteredId(def) == IF def.id # NoId THEN def.id ELSE generateWorkflowId(def.name, now)

C15_RegisterStep ==
  \A def \in RegDefs :
    RegisterWorkflow(def) =>
      IF InvalidDefinition(def)
      THEN /\ ret'.error = ValidationError
           /\ workflows' = workflows
           /\ events' = events
      ELSE /\ ret'.error = NoError
           /\ RegisteredId(def) \in DOMAIN workflows'
           /\ workflows'[RegisteredId(def)].steps = def.steps
           /\ EventCount("workflow:registered")' = EventCount("workflow:registered") + 1

C15_RegistrationValidation == [][C15_RegisterStep]_vars

(***************************************************************************)
(* C16  Definition immutability: a definition stored under a workflowId is *)
(* never changed or replaced by a later operation, also not by a later     *)
(* registerWorkflow with the same id, supplied or generated.               *)
(***************************************************************************)
C16_DefinitionsKept ==
  \A w \in DOMAIN workflows :
    /\ w \in DOMAIN workflows'
    /\ workflows'[w] = workflows[w]

C16_DefinitionImmutable == [][C16_DefinitionsKept]_vars

(***************************************************************************)
(* C17  No overlapping attempts: whatever the interleaving of              *)
(* executeWorkflow, stopExecution and replayExecution, an execution has at *)
(* most one step attempt in progress: at most one call is waiting for a    *)
(* step of it, and at most one of its StepExecution records is running.    *)
(***************************************************************************)
AttemptsInProgress(e) == {t \in TaskIds : tasks[t].exec = e /\ tasks[t].pc = "await"}
RunningRecords(e) == {i \in StepIndexes : executions[e].steps[i].status = "running"}

C17_NoOverlap ==
  \A e \in ExecIds :
    /\ Cardinality(AttemptsInProgress(e)) <= 1
    /\ Cardinality(RunningRecords(e)) <= 1

(***************************************************************************)
(* C18  Replay reset: replayExecution on a known execution sets status to  *)
(* running, currentStep to fromStep and retryCount to 0 and emits          *)
(* execution:replaying in the step that dispatches the first replayed      *)
(* attempt, so the replay can use maxRetries retries whatever the earlier  *)
(* run consumed; with an unknown id it fails with "Execution not found"    *)
(* and changes no execution record.                                        *)
(***************************************************************************)
ExecutionNotFound == "Execution not found"

ReplayTasks == {t \in TaskIds : tasks[t].kind = "replay"}

\* a call shows in the value it returns or in the task it starts (a call that
\* changes neither is a stuttering step)
ReplayCalled == ret' # ret \/ \E t \in FreeTasks : tasks'[t] # tasks[t]

C18_ReplayCall ==
  ReplayCalled =>
    \A e \in ExecIds \cup {UnknownExec}, fromStep \in 0..MaxSteps :
      ReplayExecution(e, fromStep) =>
        IF e \in ExecIds
        THEN /\ executions'[e].status = "running"
             /\ executions'[e].currentStep = fromStep
             /\ executions'[e].retryCount = 0
             /\ CopiesIn(Event("execution:replaying", e, NoId, fromStep, NoError), events')
                  = CopiesIn(Event("execution:replaying", e, NoId, fromStep, NoError), events) + 1
             /\ ret'.error = NoError
        ELSE /\ ret' = [op |-> "replayExecution", error |-> ExecutionNotFound]
             /\ executions' = executions
             /\ events' = events
             /\ tasks' = tasks

\* a failed attempt of a replay is retried as long as the replay itself has
\* made fewer than maxRetries retries
C18_FullBudget ==
  \A t \in ReplayTasks :
    (AttemptFailed(t) /\ tasks[t].steps[tasks[t].i + 1].retryable # FALSE) =>
      /\ executions[tasks[t].exec].retryCount <= config.maxRetries
      /\ tasks'[t].pc = "backoff" <=> executions[tasks[t].exec].retryCount < config.maxRetries

C18_ReplayReset == [][C18_ReplayCall /\ C18_FullBudget]_vars

\* the run spent the only retry and failed; the replay of the same step failed
\* once and is waiting for its own retry
C18_Witness ==
  \E t \in ReplayTasks :
    LET e == tasks[t].exec
    IN /\ config.maxRetries = 1
       /\ tasks[t].pc = "backoff" /\ tasks[t].i = 0
       /\ Started(e, 0) = 3
       /\ executions[e].retryCount = 1
       /\ executions[e].status = "running"
       /\ EventCount("execution:replaying") = 1

(***************************************************************************)
(* C19  Stop contract: stopExecution on a known execution sets its status  *)
(* to stopped and its endTime to the current time and emits                *)
(* execution:stopped; no StepExecution record and no other execution       *)
(* changes.  With an unknown id it fails with "Execution not found",       *)
(* changes nothing and emits nothing.                                      *)
(***************************************************************************)
C19_StopCall ==
  \A e \in ExecIds \cup {UnknownExec} :
    StopExecution(e) =>
      IF e \in ExecIds
      THEN /\ executions'[e].status = "stopped"
           /\ executions'[e].endTime = now
           /\ executions'[e].steps = executions[e].steps
           /\ \A o \in ExecIds \ {e} : executions'[o] = executions[o]
           /\ DOMAIN executions' = DOMAIN executions
           /\ events' = Emit(events, Event("execution:stopped", e, NoId, NoIndex, NoError))
           /\ ret'.error = NoError
      ELSE /\ ret' = [op |-> "stopExecution", error |-> ExecutionNotFound]
           /\ executions' = executions
           /\ events' = events
           /\ tasks' = tasks

TerminalEvent(type, e, err) == Event(type, e, executions[e].workflowId, NoIndex, err)

C23_StatusChange ==
  \A e \in ExecIds :
    /\ (executions[e].status # "completed" /\ executions'[e].status = "completed") =>
         CopiesIn(TerminalEvent("execution:completed", e, NoError), events')
           = CopiesIn(TerminalEvent("execution:completed", e, NoError), events) + 1
    /\ (executions[e].status # "failed" /\ executions'[e].status = "failed") =>
         CopiesIn(TerminalEvent("execution:failed", e, executions'[e].error), events')
           = CopiesIn(TerminalEvent("execution:failed", e, executions'[e].error), events) + 1

C23_TerminalEvents == [][C23_StatusChange]_vars

(***************************************************************************)
(* C24  Stopped is final: once stopExecution has set the status to         *)
(* stopped, it stays stopped as long as replayExecution is not called for  *)
(* that execution; the step loop of the run that was in progress does not  *)
(* overwrite it with completed or failed.                                  *)
(***************************************************************************)
ReplayCalledFor(e) ==
  CopiesIn(Event("execution:replaying", e, NoId, executions'[e].currentStep, NoError), events')
    > CopiesIn(Event("execution:replaying", e, NoId, executions'[e].currentStep, NoError), events)

C24_StoppedStays ==
  \A e \in ExecIds :
    (executions[e].status = "stopped" /\ ~ReplayCalledFor(e)) =>
      executions'[e].status = "stopped"

C24_StoppedIsFinal == [][C24_StoppedStays]_vars

(***************************************************************************)
(* C25  Completed means every step completed: an execution whose status is *)
(* completed has a completed StepExecution record at each index 0..N-1 of  *)
(* its workflow's N steps, also after a replay from any fromStep.          *)
(***************************************************************************)
WorkflowLength(e) == Len(workflows[executions[e].workflowId].steps)

C25_CompletedMeansAllSteps ==
  \A e \in ExecIds :
    executions[e].status = "completed" =>
      \A i \in 0..(WorkflowLength(e) - 1) : executions[e].steps[i].status = "completed"

(***************************************************************************)
(* C26  No stale error: an execution whose status is completed has no      *)
(* error recorded, also when it completed in a replay after a failed run.  *)
(***************************************************************************)
C26_NoStaleError ==
  \A e \in ExecIds :
    executions[e].status = "completed" => executions[e].error = NoError

(***************************************************************************)
(* C27  Current step tracking: whenever a step attempt is dispatched at    *)
(* index i for an execution, by executeWorkflow or by replayExecution,     *)
(* that execution's currentStep equals i.                                  *)
(***************************************************************************)
C27_Dispatch ==
  \A e \in DOMAIN executions' : \A i \in StepIndexes :
    CopiesIn(StepStarted(e, i), events') > CopiesIn(StepStarted(e, i), events) =>
      executions'[e].currentStep = i

C27_CurrentStepTracking == [][C27_Dispatch]_vars

(***************************************************************************)
(* C28  Termination: if the timeout and backoff timers fire, every         *)
(* executeWorkflow call on a registered workflow eventually returns or     *)
(* throws, and the execution's status is then no longer running, whatever  *)
(* the handlers do, handlers that never settle included.                   *)
(***************************************************************************)
Pending(t) == tasks[t].kind = "execute" /\ ~Finished(t)
Settled(t) == Finished(t) /\ executions[tasks[t].exec].status \in {"completed", "failed"}

C28_Termination == \A t \in TaskIds : Pending(t) ~> Settled(t)

\* every attempt of the only step ran into the timeout, the retry included
C28_Witness ==
  \E t \in ExecuteTasks :
    LET e == tasks[t].exec
    IN /\ tasks[t].pc = "threw"
       /\ config.maxRetries = 1
       /\ Started(e, 0) = 2 /\ Completed(e, 0) = 0
       /\ executions[e].status = "failed"
       /\ executions[e].error = TimeoutError
       /\ executions[e].steps[0].error = TimeoutError
       /\ Cardinality(orphans) >= 1

(***************************************************************************)
(* C30  encrypt leaves its argument unchanged: after encrypt(payload), of  *)
(* any size, the caller's payload has the fields it had before the call;   *)
(* the compressed marker is on the returned blob only.                     *)
(***************************************************************************)
C30_ArgumentUnchanged ==
  call.op = "encrypt" => call.data = call.arg

\* C21: deleteExecutionState(e) removes the stored state of e and every
\* snapshot createSnapshot made for e, and leaves the stored state and the
\* snapshots of every other execution id, and all workflow definitions, as
\* they were.
SnapshotsOf(fs, e) ==
  {path \in DOMAIN fs : path = SnapshotFile(SnapshotId(e, 0, fs[path].mtime))}

Kept(path) == path \in DOMAIN files => path \in DOMAIN files' /\ files'[path] = files[path]

C21_Delete ==
  call'.op = "deleteExecutionState" =>
    \A e \in CascadeIds :
      DeleteExecutionState(e) =>
        /\ StatePath(e) \notin DOMAIN files'
        /\ SnapshotsOf(files', e) = {}
        /\ \A other \in CascadeIds \ {e} :
             /\ Kept(StatePath(other))
             /\ \A path \in SnapshotsOf(files, other) : Kept(path)
        /\ \A w \in WorkflowFileIds : Kept(DefPath(w))

C21_CascadeExact == [][C21_Delete]_vars

\* C22: after cleanup(d) returns, no execution-state or snapshot file with
\* a modification time older than d days remains, every such file newer
\* than the threshold is still present and unchanged, no workflow
\* definition file was removed, and the number returned is the number of
\* files deleted.
Retained(fs) == {path \in DOMAIN fs : path.dir \in {"executions", "snapshots"}}

\* the age of a file at time t, in whole days and the milliseconds beyond
AgeDays(fs, path, t) == (t - fs[path].mtime) \div DayMs
AgeRest(fs, path, t) == (t - fs[path].mtime) % DayMs
Older(fs, path, t, d) ==
  AgeDays(fs, path, t) > d \/ (AgeDays(fs, path, t) = d /\ AgeRest(fs, path, t) > 0)
Newer(fs, path, t, d) == AgeDays(fs, path, t) < d

C22_Cleanup ==
  call'.op = "cleanup" =>
    \A d \in CleanupOptions :
      Cleanup(d) =>
        LET days == IF d = NoOption THEN DefaultOlderThanDays ELSE d
        IN  call'.result.error = NoError =>
            /\ \A path \in Retained(files') : ~Older(files', path, now, days)
            /\ \A path \in Retained(files) : Newer(files, path, now, days) => Kept(path)
            /\ \A path \in DOMAIN files : path.dir = "workflows" => Kept(path)
            /\ call'.result.value.pad = Cardinality(DOMAIN files \ DOMAIN files')

C22_Retention == [][C22_Cleanup]_vars

\* cleanup(1) has removed one file, kept a definition older than a day and
\* kept a snapshot or state newer than a day
C22_Witness ==
  /\ call.op = "cleanup"
  /\ call.result.error = NoError
  /\ call.result.value.pad = 1
  /\ \E path \in DOMAIN files : path.dir = "workflows" /\ Older(files, path, now, 1)
  /\ \E path \in Retained(files) : Newer(files, path, now, 1)

\* C29: the state root and its three namespace directories exist before
\* any persistence operation uses them: a saveExecutionState,
\* saveWorkflowDefinition or createSnapshot issued after the constructor
\* returned does not fail because its directory is missing.
WriteCalls == {"saveExecutionState", "saveWorkflowDefinition", "createSnapshot"}

C29_InitializedBeforeUse ==
  call.op \in WriteCalls => call.result.error # NoSuchDirectory

====
